---- MODULE Spec2Model ----
(***************************************************************************)
(* State-machine model of the security simulators of this repository:      *)
(*   - RateLimitingSimulator  (request counter, block flag, countdown)     *)
(*   - InputSanitizationSimulator (sanitizeInput over DANGEROUS_PATTERNS)  *)
(*   - Terminal (the log view of the simulators)                           *)
(*   - CSRFProtectionSimulator (tokens, attack mode, async validation)     *)
(*   - Index / LoginScreen / useAuth / lib/auth (the access-code gate)     *)
(* Strings are sequences of one-character strings.  Log lines keep their   *)
(* type and the message they carry; interpolated numbers and texts are     *)
(* left out.  handleRequest and handleSanitize are modelled as the         *)
(* functions they are (the disabled attribute of their button is not a     *)
(* guard, a superset of what the page allows); Submit Form of the CSRF     *)
(* simulator and the login form have no check of their own, so there the   *)
(* disabled attribute is the guard.                                        *)
(***************************************************************************)
EXTENDS Integers, Sequences, FiniteSets, TLC

VARIABLES
    requests,      \* RateLimitingSimulator: useState(0)
    blocked,       \* RateLimitingSimulator: useState(false)
    timeToReset,   \* RateLimitingSimulator: useState(0)
    logs,          \* RateLimitingSimulator: log lines shown in the Terminal
    mounted,       \* the RateLimitingSimulator instance is mounted
    timer,         \* number of active setInterval timers of the countdown effect
    input,         \* InputSanitizationSimulator: useState("")
    result,        \* InputSanitizationSimulator: useState(null)
    sanLogs,       \* InputSanitizationSimulator: log lines shown in the Terminal
    lastIndex,     \* lastIndex of each global-flag RegExp of DANGEROUS_PATTERNS
    visibleLines,  \* Terminal of the RateLimitingSimulator: useState(autoPlay ? 0 : lines.length)
    serverToken,   \* CSRFProtectionSimulator: useState(generateToken())
    clientToken,   \* CSRFProtectionSimulator: useState(serverToken)
    isValidating,  \* CSRFProtectionSimulator: useState(false)
    validationResult, \* CSRFProtectionSimulator: useState(null)
    attackMode,    \* CSRFProtectionSimulator: useState(false)
    csrfLogs,      \* CSRFProtectionSimulator: log lines shown in the Terminal
    pending,       \* validateRequest calls waiting in their await, oldest first
    authFlag,      \* sessionStorage holds AUTH_KEY = "true"
    authenticated, \* useAuth: useState(() => isAuthenticated())
    code,          \* LoginScreen: useState("")
    error,         \* LoginScreen: useState("")
    isLoading,     \* LoginScreen: useState(false)
    showCode,      \* LoginScreen: useState(false)
    loginPending   \* handleSubmit calls waiting in their await, oldest first

rateVars == <<requests, blocked, timeToReset, logs, mounted, timer, visibleLines>>
sanVars == <<input, result, sanLogs, lastIndex>>
csrfVars == <<serverToken, clientToken, isValidating, validationResult, attackMode, csrfLogs,
              pending>>
loginVars == <<authFlag, authenticated, code, error, isLoading, showCode, loginPending>>
vars == <<requests, blocked, timeToReset, logs, mounted, timer, input, result, sanLogs,
          lastIndex, visibleLines, serverToken, clientToken, isValidating, validationResult,
          attackMode, csrfLogs, pending, authFlag, authenticated, code, error, isLoading,
          showCode, loginPending>>

\* a nullable value is a sequence of length at most 1: null is the empty one
Null == <<>>
Some(v) == <<v>>

(***************************************************************************)
(* Rate limiter                                                            *)
(***************************************************************************)
MAX_REQUESTS == 10
RESET_TIME == 30

LogLine(type, content) == [type |-> type, content |-> content]

\* prev.slice(-n): the last n elements
SliceLast(s, n) == IF Len(s) <= n THEN s ELSE SubSeq(s, Len(s) - n + 1, Len(s))

\* setLogs(prev => [...prev.slice(-8), { type, content }])
addLog(prev, type, content) == Append(SliceLast(prev, 8), LogLine(type, content))

RateInitLogs ==
    << LogLine("output", "Rate limiting monitor initialized"),
       LogLine("success", "Limit: requests per window") >>

\* Terminal: useState<number>(autoPlay ? 0 : lines.length), evaluated at mount
TerminalMount(autoPlay, lines) == IF autoPlay THEN 0 ELSE Len(lines)

\* Terminal's effect: if (!autoPlay || visibleLines >= lines.length) return;
\* otherwise a timeout is set whose callback is setVisibleLines(prev => prev + 1)
TerminalSetsTimeout(autoPlay, visible, lines) == autoPlay /\ visible < Len(lines)

\* lines.slice(0, visibleLines): the lines the Terminal renders
TerminalRendered(lines, visible) ==
    SubSeq(lines, 1, IF visible < Len(lines) THEN visible ELSE Len(lines))

\* <Terminal lines={logs} autoPlay={false} />: with autoPlay false the effect
\* returns before setTimeout at every render, so nothing ever calls
\* setVisibleLines in the rate limiter's Terminal
RateAutoPlay == FALSE

\* The countdown effect, run after a render with the given state: the cleanup
\* of the previous run clears its interval, then an interval is created when
\* blocked && timeToReset > 0.
CountdownEffect_NoCleanup(isMounted, b, t) ==
    IF isMounted /\ b /\ t > 0 /\ <<b, t>> # <<blocked, timeToReset>> THEN timer + 1 ELSE timer

CountdownEffect(isMounted, b, t) == IF isMounted /\ b /\ t > 0 THEN 1 ELSE 0

\* The interval callback's updater: setTimeToReset(prev => ...), if (prev <= 1)
TickReaches0_Late(prev) == prev <= 0

TickReaches0(prev) == prev <= 1

\* return 0 / return prev - 1
TickNext_Skips(prev) == IF prev <= 2 THEN 0 ELSE prev - 1

TickNext_Stuck(prev) == IF TickReaches0(prev) THEN 0 ELSE prev

TickNext(prev) == IF TickReaches0(prev) THEN 0 ELSE prev - 1

\* setRequests(0) inside the prev <= 1 branch of the updater
RequestsAfterTick_NoReset(prev, reqs) == reqs

RequestsAfterTick(prev, reqs) == IF TickReaches0(prev) THEN 0 ELSE reqs

\* if (blocked) { addLog(...); return; }: a request is counted only when not blocked
AcceptsRequest_Always(b) == TRUE

AcceptsRequest(b) == ~b

\* newCount >= MAX_REQUESTS
LimitReached_OffByOne(newCount) == newCount > MAX_REQUESTS

LimitReached(newCount) == newCount >= MAX_REQUESTS

\* newCount >= MAX_REQUESTS * 0.7
ApproachingLimit(newCount) == newCount * 10 >= MAX_REQUESTS * 7

\* handleRequest: the click handler of "Send Request"
handleRequest ==
    /\ mounted
    /\ IF ~AcceptsRequest(blocked)
       THEN /\ logs' = addLog(logs, "error", "Request BLOCKED - Wait before retry")
            /\ UNCHANGED <<requests, blocked, timeToReset>>
       ELSE LET newCount == requests + 1 IN
            /\ requests' = newCount
            /\ IF LimitReached(newCount)
               THEN /\ blocked' = TRUE
                    /\ timeToReset' = RESET_TIME
                    /\ logs' = addLog(addLog(logs, "warning", "Rate limit reached"),
                                      "error", "BLOCKING subsequent requests for 30s")
               ELSE /\ UNCHANGED <<blocked, timeToReset>>
                    /\ logs' = IF ApproachingLimit(newCount)
                               THEN addLog(logs, "warning", "Request - Approaching limit!")
                               ELSE addLog(logs, "input", "Request processed successfully")
    /\ timer' = CountdownEffect(mounted, blocked', timeToReset')
    /\ UNCHANGED <<mounted, visibleLines, sanVars, csrfVars, loginVars>>

\* One firing of the setInterval callback (one elapsed second): it fires only
\* while an interval is active
Tick ==
    /\ timer > 0
    /\ timeToReset' = TickNext(timeToReset)
    /\ requests' = RequestsAfterTick(timeToReset, requests)
    /\ IF TickReaches0(timeToReset)
       THEN /\ blocked' = FALSE
            /\ logs' = addLog(logs, "success", "Rate limit window reset. Requests allowed.")
       ELSE UNCHANGED <<blocked, logs>>
    /\ timer' = CountdownEffect(mounted, blocked', timeToReset')
    /\ UNCHANGED <<mounted, visibleLines, sanVars, csrfVars, loginVars>>

\* The component unmounts (logout): the effect cleanup clears the interval.
\* A later mount is a new instance, starting again from Init.
Unmount ==
    /\ mounted
    /\ mounted' = FALSE
    /\ timer' = CountdownEffect(FALSE, blocked, timeToReset)
    /\ UNCHANGED <<requests, blocked, timeToReset, logs, visibleLines, sanVars, csrfVars,
                   loginVars>>

RateInit ==
    /\ requests = 0
    /\ blocked = FALSE
    /\ timeToReset = 0
    /\ logs = RateInitLogs
    /\ mounted = TRUE
    /\ timer = 0
    /\ visibleLines = TerminalMount(RateAutoPlay, RateInitLogs)

(***************************************************************************)
(* Input sanitizer: characters and regular-expression matching             *)
(***************************************************************************)
Min(S) == CHOOSE x \in S : \A y \in S : x <= y
Max(S) == CHOOSE x \in S : \A y \in S : x >= y

UpperCase == <<"A", "B", "C", "D", "E", "F", "G", "H", "I", "J", "K", "L", "M",
               "N", "O", "P", "Q", "R", "S", "T", "U", "V", "W", "X", "Y", "Z">>
LowerCase == <<"a", "b", "c", "d", "e", "f", "g", "h", "i", "j", "k", "l", "m",
               "n", "o", "p", "q", "r", "s", "t", "u", "v", "w", "x", "y", "z">>
Digits == {"0", "1", "2", "3", "4", "5", "6", "7", "8", "9"}
Letters == {UpperCase[i] : i \in 1..26} \cup {LowerCase[i] : i \in 1..26}

\* the i flag: characters are compared after case folding
FoldMap == [c \in {UpperCase[i] : i \in 1..26} |->
              LowerCase[CHOOSE i \in 1..26 : UpperCase[i] = c]]
UpperChars == {UpperCase[i] : i \in 1..26}
Fold(c) == IF c \in UpperChars THEN FoldMap[c] ELSE c

WordChars == Letters \cup Digits \cup {"_"}                 \* \w
SpaceChars == {" ", "\n", "\t", "\r"}                       \* \s
LineTerminators == {"\n", "\r"}                            \* what . does not match

\* the literal lit (given case-folded) occurs in s at position i, ignoring case
HasAt(s, i, lit) ==
    /\ i >= 1
    /\ i + Len(lit) - 1 <= Len(s)
    /\ \A k \in 1..Len(lit) : Fold(s[i + k - 1]) = lit[k]

\* the same without the i flag
HasAtExact(s, i, lit) ==
    /\ i >= 1
    /\ i + Len(lit) - 1 <= Len(s)
    /\ \A k \in 1..Len(lit) : s[i + k - 1] = lit[k]

\* first position >= i whose character is not in the set class (Len(s) + 1 if
\* none): where a greedy \w+, \s* or \d* starting at i stops
SkipWhile(s, i, class) ==
    LET S == {j \in i..Len(s) : s[j] \notin class}
    IN IF S = {} THEN Len(s) + 1 ELSE Min(S)

\* first position >= i holding a line terminator (Len(s) + 1 if none): where a
\* greedy .* starting at i stops
SkipDots(s, i) ==
    LET S == {j \in i..Len(s) : s[j] \in LineTerminators}
    IN IF S = {} THEN Len(s) + 1 ELSE Min(S)

\* an optional quote '? at position i
SkipQuote(s, i) == IF i <= Len(s) /\ s[i] = "'" THEN i + 1 ELSE i

\* first position >= i where lit occurs (0 if none): where a lazy [\s\S]*? stops
RECURSIVE FirstLit(_, _, _)
FirstLit(s, i, lit) ==
    IF i > Len(s) THEN 0
    ELSE IF HasAt(s, i, lit) THEN i
    ELSE FirstLit(s, i + 1, lit)

L_script == <<"<", "s", "c", "r", "i", "p", "t">>
L_gt == <<">">>
L_endscript == <<"<", "/", "s", "c", "r", "i", "p", "t", ">">>
L_javascript == <<"j", "a", "v", "a", "s", "c", "r", "i", "p", "t", ":">>
L_on == <<"o", "n">>
L_quote == <<"'">>
L_or == <<"o", "r">>
L_and == <<"a", "n", "d">>
L_semi == <<";">>
L_rm == <<"r", "m">>
L_cat == <<"c", "a", "t">>
L_ls == <<"l", "s">>
L_wget == <<"w", "g", "e", "t">>
L_curl == <<"c", "u", "r", "l">>
L_dotdotslash == <<".", ".", "/">>
L_iframe == <<"<", "i", "f", "r", "a", "m", "e">>
L_img == <<"<", "i", "m", "g">>
L_onerror == <<"o", "n", "e", "r", "r", "o", "r">>

\* Each XxxEnd(s, i) is the position just after the match of the pattern that
\* starts at position i of s, or 0 when the pattern does not match there.

\* /<script[\s\S]*?>[\s\S]*?<\/script>/gi
ScriptTagEnd(s, i) ==
    IF ~HasAt(s, i, L_script) THEN 0
    ELSE LET j == FirstLit(s, i + 7, L_gt) IN
         IF j = 0 THEN 0
         ELSE LET k == FirstLit(s, j + 1, L_endscript) IN
              IF k = 0 THEN 0 ELSE k + 9

\* /javascript:/gi
JavaScriptUriEnd(s, i) == IF HasAt(s, i, L_javascript) THEN i + 11 ELSE 0

\* /on\w+\s*=/gi
EventHandlerEnd(s, i) ==
    IF ~HasAt(s, i, L_on) THEN 0
    ELSE LET w == SkipWhile(s, i + 2, WordChars)
             e == SkipWhile(s, w, SpaceChars)
         IN IF w > i + 2 /\ e <= Len(s) /\ s[e] = "=" THEN e + 1 ELSE 0

\* /'\s*(or|and)\s*'?\d*'?\s*=\s*'?\d*'?/gi
SqlInjectionEnd(s, i) ==
    IF ~HasAt(s, i, L_quote) THEN 0
    ELSE LET a == SkipWhile(s, i + 1, SpaceChars)
             b == IF HasAt(s, a, L_or) THEN a + 2
                  ELSE IF HasAt(s, a, L_and) THEN a + 3 ELSE 0
         IN IF b = 0 THEN 0
            ELSE LET c == SkipWhile(s, b, SpaceChars)
                     d == SkipQuote(s, c)
                     e == SkipWhile(s, d, Digits)
                     f == SkipQuote(s, e)
                     g == SkipWhile(s, f, SpaceChars)
                 IN IF ~(g <= Len(s) /\ s[g] = "=") THEN 0
                    ELSE LET h == SkipWhile(s, g + 1, SpaceChars)
                             q == SkipQuote(s, h)
                             r == SkipWhile(s, q, Digits)
                         IN SkipQuote(s, r)

\* /;\s*(rm|cat|ls|wget|curl)/gi
CommandInjectionEnd(s, i) ==
    IF ~HasAt(s, i, L_semi) THEN 0
    ELSE LET a == SkipWhile(s, i + 1, SpaceChars) IN
         IF HasAt(s, a, L_rm) THEN a + 2
         ELSE IF HasAt(s, a, L_cat) THEN a + 3
         ELSE IF HasAt(s, a, L_ls) THEN a + 2
         ELSE IF HasAt(s, a, L_wget) THEN a + 4
         ELSE IF HasAt(s, a, L_curl) THEN a + 4
         ELSE 0

\* /\.\.\//g
PathTraversalEnd(s, i) == IF HasAtExact(s, i, L_dotdotslash) THEN i + 3 ELSE 0

\* /<iframe/gi
IframeEnd(s, i) == IF HasAt(s, i, L_iframe) THEN i + 7 ELSE 0

\* /<img.*onerror/gi: the greedy .* runs to the end of the line and backtracks
\* to the last "onerror" on it
ImageXssEnd(s, i) ==
    IF ~HasAt(s, i, L_img) THEN 0
    ELSE LET lineEnd == SkipDots(s, i + 4)
             S == {m \in (i + 4)..(lineEnd - 1) : HasAt(s, m, L_onerror)}
         IN IF S = {} THEN 0 ELSE Max(S) + 7

NumPatterns == 8

\* DANGEROUS_PATTERNS[p].name
PatternName(p) ==
    <<"XSS Script Tag", "JavaScript URI", "Event Handler", "SQL Injection",
      "Command Injection", "Path Traversal", "Iframe Injection", "Image XSS">>[p]

\* DANGEROUS_PATTERNS[p].pattern matched at position i of s
MatchEnd(p, s, i) ==
    CASE p = 1 -> ScriptTagEnd(s, i)
      [] p = 2 -> JavaScriptUriEnd(s, i)
      [] p = 3 -> EventHandlerEnd(s, i)
      [] p = 4 -> SqlInjectionEnd(s, i)
      [] p = 5 -> CommandInjectionEnd(s, i)
      [] p = 6 -> PathTraversalEnd(s, i)
      [] p = 7 -> IframeEnd(s, i)
      [] p = 8 -> ImageXssEnd(s, i)

\* start of the leftmost match of pattern p in s at a position >= i (0 if none)
RECURSIVE FindFrom(_, _, _)
FindFrom(p, s, i) ==
    IF i > Len(s) THEN 0
    ELSE IF MatchEnd(p, s, i) # 0 THEN i
    ELSE FindFrom(p, s, i + 1)

(***************************************************************************)
(* Input sanitizer: sanitizeInput                                          *)
(***************************************************************************)
BLOCKED == <<"[", "B", "L", "O", "C", "K", "E", "D", "]">>

\* RegExp.prototype.test of a global-flag pattern: the search starts at
\* lastIndex (0-based); a match leaves lastIndex just after it, a failure
\* leaves 0.
RegExpTest(p, s, li) ==
    LET i == IF li > Len(s) THEN 0 ELSE FindFrom(p, s, li + 1)
    IN IF i = 0 THEN [found |-> FALSE, lastIndex |-> 0]
       ELSE [found |-> TRUE, lastIndex |-> MatchEnd(p, s, i) - 1]

\* s from position pos on, with every match of pattern p replaced by "[BLOCKED]"
RECURSIVE ReplaceFrom(_, _, _)
ReplaceFrom(p, s, pos) ==
    LET i == FindFrom(p, s, pos)
    IN IF i = 0 THEN SubSeq(s, pos, Len(s))
       ELSE SubSeq(s, pos, i - 1) \o BLOCKED \o ReplaceFrom(p, s, MatchEnd(p, s, i))

\* s.replace(pattern, "[BLOCKED]") without the g flag: the first match only
ReplaceFirst(p, s) ==
    LET i == FindFrom(p, s, 1)
    IN IF i = 0 THEN s
       ELSE SubSeq(s, 1, i - 1) \o BLOCKED \o SubSeq(s, MatchEnd(p, s, i), Len(s))

StringReplace_FirstOnly(p, s) == [text |-> ReplaceFirst(p, s), lastIndex |-> 0]

StringReplace_Nothing(p, s) == [text |-> s, lastIndex |-> 0]

\* sanitized.replace(pattern, "[BLOCKED]") with a global-flag pattern: the
\* search starts with lastIndex = 0 and ends, after the last match, with
\* lastIndex = 0.
StringReplace(p, s) == [text |-> ReplaceFrom(p, s, 1), lastIndex |-> 0]

\* lastIndex of the pattern at the end of an iteration: test left `tested`
\* there, and the replace that follows overwrites it
ReplaceSetsLastIndex_Never(tested, replaced) == tested

ReplaceSetsLastIndex(tested, replaced) == replaced

\* the pattern visited by the k-th iteration of for (... of DANGEROUS_PATTERNS)
PatternAt_Reversed(k) == NumPatterns + 1 - k

PatternAt(k) == k

\* if (pattern.test(input)) threats.push(name)
PushThreat_TestsWorkingCopy(threats, p, inp, work, li) ==
    IF RegExpTest(p, work, li).found THEN Append(threats, PatternName(p)) ELSE threats

PushThreat_Always(threats, p, inp, work, li) == Append(threats, PatternName(p))

PushThreat(threats, p, inp, work, li) ==
    IF RegExpTest(p, inp, li).found THEN Append(threats, PatternName(p)) ELSE threats

\* sanitized, threats and the patterns' lastIndex after the first k iterations
\* of the loop of sanitizeInput
RECURSIVE PatternLoop(_, _, _)
PatternLoop(k, inp, li) ==
    IF k = 0 THEN [sanitized |-> inp, threats |-> <<>>, lastIndex |-> li]
    ELSE LET st == PatternLoop(k - 1, inp, li)
             p == PatternAt(k)
             r == StringReplace(p, st.sanitized)
         IN [sanitized |-> r.text,
             threats |-> PushThreat(st.threats, p, inp, st.sanitized, st.lastIndex[p]),
             lastIndex |-> [st.lastIndex EXCEPT
                              ![p] = ReplaceSetsLastIndex(
                                         RegExpTest(p, inp, st.lastIndex[p]).lastIndex,
                                         r.lastIndex)]]

\* s.replace(/c/g, rep) for a single character c
RECURSIVE ReplaceChar(_, _, _)
ReplaceChar(s, c, rep) ==
    IF s = <<>> THEN <<>>
    ELSE (IF Head(s) = c THEN rep ELSE <<Head(s)>>) \o ReplaceChar(Tail(s), c, rep)

E_lt == <<"&", "l", "t", ";">>
E_gt == <<"&", "g", "t", ";">>
E_quot == <<"&", "q", "u", "o", "t", ";">>
E_apos == <<"&", "#", "x", "2", "7", ";">>

\* HTML entity encoding
EscapeHtml_NoQuotes(s) == ReplaceChar(ReplaceChar(s, "<", E_lt), ">", E_gt)

EscapeHtml(s) ==
    ReplaceChar(ReplaceChar(ReplaceChar(ReplaceChar(s, "<", E_lt), ">", E_gt),
                            "\"", E_quot), "'", E_apos)

sanitizeInput(inp, li) ==
    LET st == PatternLoop(NumPatterns, inp, li)
    IN [sanitized |-> EscapeHtml(st.sanitized), threats |-> st.threats,
        lastIndex |-> st.lastIndex]

(***************************************************************************)
(* InputSanitizationSimulator                                              *)
(***************************************************************************)
\* <script>alert("XSS")</script>   '; DROP TABLE users; --
\* <img src=x onerror="stealCookies()">   ../../../etc/passwd
EXAMPLE_ATTACKS ==
    { <<"<", "s", "c", "r", "i", "p", "t", ">", "a", "l", "e", "r", "t", "(", "\"", "X", "S", "S", "\"", ")", "<", "/", "s", "c", "r", "i", "p", "t", ">">>,
      <<"'", ";", " ", "D", "R", "O", "P", " ", "T", "A", "B", "L", "E", " ", "u", "s", "e", "r", "s", ";", " ", "-", "-">>,
      <<"<", "i", "m", "g", " ", "s", "r", "c", "=", "x", " ", "o", "n", "e", "r", "r", "o", "r", "=", "\"", "s", "t", "e", "a", "l", "C", "o", "o", "k", "i", "e", "s", "(", ")", "\"", ">">>,
      <<".", ".", "/", ".", ".", "/", ".", ".", "/", "e", "t", "c", "/", "p", "a", "s", "s", "w", "d">> }

\* texts typed or pasted as a whole into the textarea: the empty text,
\* <script>alert(1)</script>, plain text, ' OR '1'='1, javascript:alert(1),
\* <iframe src=x>, ; rm -rf /
Samples ==
    { <<>>,
      <<"<", "s", "c", "r", "i", "p", "t", ">", "a", "l", "e", "r", "t", "(", "1", ")", "<", "/", "s", "c", "r", "i", "p", "t", ">">>,
      <<"p", "l", "a", "i", "n", " ", "t", "e", "x", "t">>,
      <<"'", " ", "O", "R", " ", "'", "1", "'", "=", "'", "1">>,
      <<"j", "a", "v", "a", "s", "c", "r", "i", "p", "t", ":", "a", "l", "e", "r", "t", "(", "1", ")">>,
      <<"<", "i", "f", "r", "a", "m", "e", " ", "s", "r", "c", "=", "x", ">">>,
      <<";", " ", "r", "m", " ", "-", "r", "f", " ", "/">> }

\* pieces of text typed at the end of the textarea:
\* <script  >  </script>  onerror  =  '  OR  ;  rm  <img  and a line break
Fragments ==
    { <<"<", "s", "c", "r", "i", "p", "t">>, <<">">>,
      <<"<", "/", "s", "c", "r", "i", "p", "t", ">">>,
      <<"o", "n", "e", "r", "r", "o", "r">>, <<"=">>, <<"'">>, <<"O", "R">>,
      <<";">>, <<"r", "m">>, <<"<", "i", "m", "g">>, <<"\n">> }

MaxFrags == 2

\* the texts made of at most n fragments
RECURSIVE Typed(_)
Typed(n) ==
    IF n = 0 THEN {<<>>}
    ELSE LET T == Typed(n - 1) IN T \cup {t \o f : t \in T, f \in Fragments}

Extendable == Typed(MaxFrags - 1)

\* every text the textarea can hold
AllInputs == Typed(MaxFrags) \cup Samples \cup EXAMPLE_ATTACKS

ZeroIndex == [p \in 1..NumPatterns |-> 0]

\* onChange of the textarea: setInput(e.target.value); setResult(null)
onChange ==
    /\ \/ /\ input \in Extendable
          /\ \E f \in Fragments : input' = input \o f
       \/ \E v \in Samples : input' = v
    /\ result' = Null
    /\ UNCHANGED <<sanLogs, lastIndex, rateVars, csrfVars, loginVars>>

\* loadExample(example)
loadExample ==
    /\ \E example \in EXAMPLE_ATTACKS : input' = example
    /\ result' = Null
    /\ UNCHANGED <<sanLogs, lastIndex, rateVars, csrfVars, loginVars>>

SanInitLogs ==
    << LogLine("output", "Input sanitization engine ready"),
       LogLine("success", "XSS, SQL Injection, Command Injection detection enabled") >>

\* the setLogs updater of handleSanitize: [...prev.slice(-5), ...]
SanitizeLogs(prev, threats) ==
    IF Len(threats) > 0
    THEN SliceLast(prev, 5) \o
         << LogLine("warning", "Analyzing input"),
            LogLine("error", "THREATS DETECTED"),
            LogLine("success", "Malicious content neutralized") >>
    ELSE SliceLast(prev, 5) \o
         << LogLine("input", "Analyzing input"),
            LogLine("success", "No threats detected - Input is safe") >>

\* handleSanitize: setResult(sanitizeInput(input)); setLogs(...)
handleSanitize ==
    /\ LET r == sanitizeInput(input, lastIndex)
       IN /\ result' = Some([sanitized |-> r.sanitized, threats |-> r.threats])
          /\ lastIndex' = r.lastIndex
          /\ sanLogs' = SanitizeLogs(sanLogs, r.threats)
    /\ UNCHANGED <<input, rateVars, csrfVars, loginVars>>

SanInit ==
    /\ input = <<>>
    /\ result = Null
    /\ sanLogs = SanInitLogs
    /\ lastIndex = ZeroIndex

(***************************************************************************)
(* CSRFProtectionSimulator                                                 *)
(***************************************************************************)
\* the random parts Math.random() can contribute to a token
MaxRandom == 3

RandomParts == 1..MaxRandom

\* generateToken: 'csrf_' + random
generateToken(r) == <<"csrf_", r>>

\* setClientToken("malicious_fake_token_xyz")
FAKE_TOKEN == <<"malicious_fake_token_xyz", 0>>

\* The body of the sync effect: the value it gives to setClientToken
SyncEffect(attack, server) == IF ~attack THEN server ELSE FAKE_TOKEN

\* clientToken after the render that follows a click: the effect runs when one
\* of its dependencies [attackMode, serverToken] changed, and React runs the
\* effects of a click before it handles anything else
ClientAfterRender_AttackDepOnly(attack, server) ==
    IF attack # attackMode THEN SyncEffect(attack, server) ELSE clientToken

ClientAfterRender(attack, server) ==
    IF <<attack, server>> # <<attackMode, serverToken>>
    THEN SyncEffect(attack, server)
    ELSE clientToken

\* const isValid = clientToken === serverToken
IsValid_Always(client, server) == TRUE

IsValid(client, server) == client = server

\* <Button onClick={validateRequest} disabled={isValidating}>
SubmitEnabled_Always(validating) == TRUE

SubmitEnabled(validating) == ~validating

\* the values of the render whose validateRequest is running: after the await
\* the function still reads the clientToken and serverToken of that render
Closure(client, server, attack) == [client |-> client, server |-> server, attack |-> attack]

\* the number of validateRequest calls that can wait at the same time
MaxPending == 2

\* setLogs(prev => [...prev.slice(-6), l1, l2])
CsrfLog(prev, l1, l2) == SliceLast(prev, 6) \o <<l1, l2>>

CsrfInitLogs ==
    << LogLine("output", "CSRF protection initialized"),
       LogLine("success", "Token synchronized with server") >>

\* validateRequest up to its await: the click on Submit Form
validateRequest ==
    /\ SubmitEnabled(isValidating)
    /\ Len(pending) < MaxPending
    /\ isValidating' = TRUE
    /\ validationResult' = Null
    /\ csrfLogs' = CsrfLog(csrfLogs, LogLine("input", "Submitting form with CSRF token..."),
                           LogLine("output", "Client token"))
    /\ pending' = Append(pending, Closure(clientToken, serverToken, attackMode))
    /\ UNCHANGED <<serverToken, clientToken, attackMode, rateVars, sanVars, loginVars>>

\* validateRequest after its await: the 1000 ms timeout has fired
validateRequestResumes ==
    /\ pending # <<>>
    /\ LET p == Head(pending)
           isValid == IsValid(p.client, p.server)
       IN /\ csrfLogs' = IF isValid
                         THEN CsrfLog(csrfLogs, LogLine("success", "Token validated successfully"),
                                      LogLine("success", "Request APPROVED - Action executed"))
                         ELSE CsrfLog(csrfLogs, LogLine("error", "Token mismatch detected!"),
                                      LogLine("error", "Request REJECTED - Possible CSRF attack"))
          /\ validationResult' = Some(IF isValid THEN "success" ELSE "error")
    /\ isValidating' = FALSE
    /\ pending' = Tail(pending)
    /\ UNCHANGED <<serverToken, clientToken, attackMode, rateVars, sanVars, loginVars>>

\* rotateToken, followed by the sync effect of the render it causes
rotateToken ==
    /\ \E r \in RandomParts :
          /\ serverToken' = generateToken(r)
          /\ clientToken' = ClientAfterRender(attackMode, generateToken(r))
    /\ csrfLogs' = CsrfLog(csrfLogs, LogLine("warning", "Token rotated for security"),
                           LogLine("output", "New token"))
    /\ validationResult' = Null
    /\ UNCHANGED <<isValidating, attackMode, pending, rateVars, sanVars, loginVars>>

\* onClick={() => setAttackMode(!attackMode)}, followed by the sync effect
toggleAttackMode ==
    /\ attackMode' = ~attackMode
    /\ clientToken' = ClientAfterRender(~attackMode, serverToken)
    /\ UNCHANGED <<serverToken, isValidating, validationResult, csrfLogs, pending, rateVars,
                   sanVars, loginVars>>

\* the state after the mount, whatever token generateToken() returned
CsrfInit ==
    /\ \E r \in RandomParts : serverToken = generateToken(r)
    /\ clientToken = serverToken
    /\ isValidating = FALSE
    /\ validationResult = Null
    /\ attackMode = FALSE
    /\ csrfLogs = CsrfInitLogs
    /\ pending = <<>>

\* one mount of the simulator, left alone
CsrfAtRest == CsrfInit /\ serverToken = generateToken(1)

(***************************************************************************)
(* Access-code gate: lib/auth, useAuth, LoginScreen, Index                 *)
(***************************************************************************)
\* the access code hashed by validateAccessCode
ACCESS_CODE ==
    << "g", "T", "6", "@", "Q", "p", "!", "R", "1", "Z", "$", "u", "N", "9", "e", "#", "X",
       "^", "c", "D", "2", "s", "L", "%", "h", "Y", "&", "v", "J", "m", "*", "W", "+", "K",
       "7", "B", "~", "A", "=", "F", "4", "q", "-", "U", "o", "_", "r", "P", ")", "k", "8",
       "S", "]", "3", "C", "0", "{", "I", "?", "E" >>

\* the constant HASHED_ACCESS_CODE of lib/auth, which validateAccessCode never reads
HASHED_ACCESS_CODE ==
    <<"a", "8", "f", "5", "f", "1", "6", "7", "f", "4", "4", "f", "4", "9", "6", "4", "e", "6", "c", "9", "9", "8", "d", "e", "e", "8", "2", "7", "1", "1", "0", "c">>

\* codes typed into the access-code field: nothing, a blank, admin, the
\* access code, the access code after or before a blank, the access code
\* without its last character, the text of HASHED_ACCESS_CODE
Codes ==
    { <<>>, <<" ">>, <<"a", "d", "m", "i", "n">>, ACCESS_CODE, ACCESS_CODE \o <<" ">>,
      <<" ">> \o ACCESS_CODE, SubSeq(ACCESS_CODE, 1, Len(ACCESS_CODE) - 1),
      HASHED_ACCESS_CODE }

\* hashCode: the SHA-256 digest in hex; two texts have the same digest only
\* when they are the same text
hashCode(c) == <<"sha256">> \o c

\* validateAccessCode: inputHash === expectedHash
validateAccessCode_Always(c) == TRUE

validateAccessCode(c) == hashCode(c) = hashCode(ACCESS_CODE)

\* String.prototype.trim
RECURSIVE TrimStart(_)
TrimStart(c) == IF c # <<>> /\ Head(c) \in SpaceChars THEN TrimStart(Tail(c)) ELSE c

RECURSIVE TrimEnd(_)
TrimEnd(c) ==
    IF c # <<>> /\ c[Len(c)] \in SpaceChars THEN TrimEnd(SubSeq(c, 1, Len(c) - 1)) ELSE c

Trim(c) == TrimEnd(TrimStart(c))

\* <Button type="submit" disabled={isLoading || !code.trim()}>
SubmitDisabled(loading, c) == loading \/ Trim(c) = <<>>

NoError == <<>>
InvalidCode == "Codice di accesso non valido. Riprova."
ValidationFailed == "Errore durante la validazione. Riprova."

\* Index: if (!isAuthenticated) return <LoginScreen onLogin={login} />
ShowsLoginScreen == ~authenticated

\* onChange of the access-code field: setCode(e.target.value)
setCode ==
    /\ ShowsLoginScreen
    /\ \E c \in Codes : code' = c
    /\ UNCHANGED <<authFlag, authenticated, error, isLoading, showCode, loginPending,
                   rateVars, sanVars, csrfVars>>

\* onClick={() => setShowCode(!showCode)}
toggleShowCode ==
    /\ ShowsLoginScreen
    /\ showCode' = ~showCode
    /\ UNCHANGED <<authFlag, authenticated, code, error, isLoading, loginPending,
                   rateVars, sanVars, csrfVars>>

\* handleSubmit up to its await
handleSubmit ==
    /\ ShowsLoginScreen
    /\ ~SubmitDisabled(isLoading, code)
    /\ error' = NoError
    /\ isLoading' = TRUE
    /\ loginPending' = Append(loginPending, code)
    /\ UNCHANGED <<authFlag, authenticated, code, showCode, rateVars, sanVars, csrfVars>>

\* handleSubmit after its await: validateAccessCode returned, or threw (an
\* environment without crypto.subtle).  After onLogin() the LoginScreen
\* unmounts; its state is that of the next mount.
handleSubmitResumes ==
    /\ loginPending # <<>>
    /\ \E throws \in BOOLEAN :
          IF ~throws /\ validateAccessCode(Head(loginPending))
          THEN /\ authFlag' = TRUE
               /\ authenticated' = TRUE
               /\ code' = <<>>
               /\ error' = NoError
               /\ showCode' = FALSE
          ELSE /\ error' = Some(IF throws THEN ValidationFailed ELSE InvalidCode)
               /\ UNCHANGED <<authFlag, authenticated, code, showCode>>
    /\ isLoading' = FALSE
    /\ loginPending' = Tail(loginPending)
    /\ UNCHANGED <<rateVars, sanVars, csrfVars>>

\* logout of useAuth, the onLogout of the SecurityHeader
logout ==
    /\ ~ShowsLoginScreen
    /\ authFlag' = FALSE
    /\ authenticated' = FALSE
    /\ UNCHANGED <<code, error, isLoading, showCode, loginPending, rateVars, sanVars,
                   csrfVars>>

\* a session whose flag is unset: useState(() => isAuthenticated()) is false
LoginInit ==
    /\ authFlag = FALSE
    /\ authenticated = authFlag
    /\ code = <<>>
    /\ error = NoError
    /\ isLoading = FALSE
    /\ showCode = FALSE
    /\ loginPending = <<>>

Init == RateInit /\ SanInit /\ CsrfAtRest /\ LoginInit

NextRate == handleRequest \/ Tick \/ Unmount

SpecRate == Init /\ [][NextRate]_vars

\* setInterval(..., 1000): an active interval delivers its callback every second
SpecRateFair == Init /\ [][NextRate]_vars /\ WF_vars(Tick)

NextSan == onChange \/ loadExample \/ handleSanitize

SpecSan == Init /\ [][NextSan]_vars

InitCsrf == RateInit /\ SanInit /\ CsrfInit /\ LoginInit

NextCsrf == validateRequest \/ validateRequestResumes \/ rotateToken \/ toggleAttackMode

SpecCsrf == InitCsrf /\ [][NextCsrf]_vars

\* setTimeout(resolve, 1000): the timeout fires and the function resumes
SpecCsrfFair == InitCsrf /\ [][NextCsrf]_vars /\ WF_vars(validateRequestResumes)

NextLogin == setCode \/ toggleShowCode \/ handleSubmit \/ handleSubmitResumes \/ logout

SpecLogin == Init /\ [][NextLogin]_vars

(***************************************************************************)
(* Properties of the rate limiter                                          *)
(***************************************************************************)
LastLog == logs[Len(logs)]

\* C1: a request made while not blocked counts one more request; the tracker
\* stays unblocked (timeToReset 0) while the count is below MAX_REQUESTS and is
\* blocked with timeToReset = RESET_TIME exactly when the count reaches
\* MAX_REQUESTS, i.e. on the 10th request since the count was 0.
C1_Threshold ==
    [][ (handleRequest /\ ~blocked) =>
          /\ requests < MAX_REQUESTS
          /\ requests' = requests + 1
          /\ (requests' < MAX_REQUESTS => ~blocked' /\ timeToReset' = 0)
          /\ (requests' = MAX_REQUESTS => blocked' /\ timeToReset' = RESET_TIME) ]_vars

C1_Witness == blocked /\ requests = MAX_REQUESTS /\ timeToReset = RESET_TIME

\* C2: handleRequest invoked while blocked leaves requests, blocked and
\* timeToReset unchanged.
C2_BlockedRequestNoChange ==
    [][ (handleRequest /\ blocked) => UNCHANGED <<requests, blocked, timeToReset>> ]_vars

C2_Witness ==
    /\ blocked
    /\ LastLog = LogLine("error", "Request BLOCKED - Wait before retry")
    /\ timeToReset < RESET_TIME

\* C3: while blocked, timeToReset is in 1..RESET_TIME and every tick decrements
\* it by exactly 1; the tracker stays blocked (count kept) while the result is
\* positive, and the tick that reaches 0 (the 30th after blocking) sets
\* blocked = FALSE, requests = 0, timeToReset = 0.
C3_Countdown ==
    [][ Tick =>
          /\ blocked
          /\ timeToReset \in 1..RESET_TIME
          /\ timeToReset' = timeToReset - 1
          /\ (timeToReset' > 0 => blocked' /\ requests' = requests)
          /\ (timeToReset' = 0 => ~blocked' /\ requests' = 0) ]_vars

C3_Witness ==
    /\ ~blocked /\ requests = 0 /\ timeToReset = 0
    /\ LastLog = LogLine("success", "Rate limit window reset. Requests allowed.")

\* C4: in every reachable state blocked holds iff timeToReset > 0.
C4_BlockedIffCounting == blocked <=> timeToReset > 0

C4_Witness == blocked /\ timeToReset = 1 /\ mounted

\* C5: every step that unblocks the tracker sets requests to 0, and requests
\* changes in no other way than such a reset or an increment by 1.
C5_ResetExactlyOnUnblock ==
    [][ /\ (blocked /\ ~blocked') => requests' = 0
        /\ (requests' # requests /\ ~(blocked /\ ~blocked')) => requests' = requests + 1 ]_vars

C5_Witness ==
    /\ ~blocked /\ requests = 1
    /\ Len(logs) >= 2
    /\ logs[Len(logs) - 1] = LogLine("success", "Rate limit window reset. Requests allowed.")

\* C11: under fair delivery of the timer callbacks, a blocked and mounted
\* tracker eventually is unblocked with requests = 0, where a request is
\* accepted again, unless the component unmounts first.
C11_AutoReset ==
    (blocked /\ mounted) ~>
        (~mounted \/ (~blocked /\ requests = 0 /\ AcceptsRequest(blocked)))

\* the window was reset and two requests were counted after it
C11_Witness ==
    /\ mounted /\ ~blocked /\ requests = 2
    /\ Len(logs) >= 3
    /\ logs[Len(logs) - 2] = LogLine("success", "Rate limit window reset. Requests allowed.")

\* C12: at most one countdown interval is active; one is active only while
\* mounted, blocked and timeToReset > 0; after the unmount none is active and
\* no timer callback can fire.
C12_TimerLifecycle ==
    /\ timer \in {0, 1}
    /\ timer = 1 => (mounted /\ blocked /\ timeToReset > 0)
    /\ ~blocked => timer = 0
    /\ ~mounted => (timer = 0 /\ ~ENABLED Tick)

\* unmounted in the middle of a countdown
C12_Witness == ~mounted /\ blocked /\ timeToReset \in 1..(RESET_TIME - 1) /\ timer = 0

C13_ShowsAllLines ==
    mounted =>
        /\ visibleLines = Len(logs)
        /\ Len(TerminalRendered(logs, visibleLines)) = Len(logs)

(***************************************************************************)
(* Properties of the sanitizer                                             *)
(***************************************************************************)
Range(f) == {f[i] : i \in DOMAIN f}

PathExample == <<".", ".", "/", ".", ".", "/", ".", ".", "/", "e", "t", "c", "/", "p", "a", "s", "s", "w", "d">>
ImgExample == <<"<", "i", "m", "g", " ", "s", "r", "c", "=", "x", " ", "o", "n", "e", "r", "r", "o", "r", "=", "\"", "s", "t", "e", "a", "l", "C", "o", "o", "k", "i", "e", "s", "(", ")", "\"", ">">>
ScriptAlert1 == <<"<", "s", "c", "r", "i", "p", "t", ">", "a", "l", "e", "r", "t", "(", "1", ")", "<", "/", "s", "c", "r", "i", "p", "t", ">">>
PlainText == <<"p", "l", "a", "i", "n", " ", "t", "e", "x", "t">>
L_scriptTag == <<"<", "s", "c", "r", "i", "p", "t", ">">>

\* pattern p matches the text s somewhere
Matches(p, s) == FindFrom(p, s, 1) # 0

\* the working copy after the first k iterations of the loop, per input text
WorkAfter ==
    [v \in AllInputs |-> [k \in 0..NumPatterns |-> PatternLoop(k, v, ZeroIndex).sanitized]]

Analysed == result # Null
Result == result[1]

\* C6 (as stated): re-sanitizing the output of sanitizeInput reports no threats
\* and returns the string unchanged.
C6_Idempotent ==
    Analysed =>
        LET again == sanitizeInput(Result.sanitized, ZeroIndex)
        IN again.sanitized = Result.sanitized /\ again.threats = <<>>

\* C6 (amended): HTML-escaping the output changes nothing, and re-sanitizing it
\* reports no threats and returns it unchanged unless the Command Injection
\* pattern matches the output (the ';' of an entity followed by rm, cat, ls,
\* wget or curl); then exactly that label is reported and the text changes.
C6_IdempotentUnlessCommand ==
    Analysed =>
        LET out == Result.sanitized
            again == sanitizeInput(out, ZeroIndex)
        IN /\ EscapeHtml(out) = out
           /\ IF Matches(5, out)
              THEN again.threats = <<"Command Injection">> /\ again.sanitized # out
              ELSE again.threats = <<>> /\ again.sanitized = out

C6_Witness ==
    /\ Analysed
    /\ Matches(5, Result.sanitized)
    /\ ~Matches(5, input)

\* C7: the sanitized text contains none of the characters < > " ' and so no
\* literal <script>; sanitizing <script>alert(1)</script> reports the label
\* "XSS Script Tag".
C7_NoRawSpecials ==
    Analysed =>
        /\ \A i \in 1..Len(Result.sanitized) :
              /\ Result.sanitized[i] \notin {"<", ">", "\"", "'"}
              /\ ~HasAtExact(Result.sanitized, i, L_scriptTag)
        /\ (input = ScriptAlert1 => "XSS Script Tag" \in Range(Result.threats))

C7_Witness ==
    /\ Analysed
    /\ input = ScriptAlert1
    /\ "XSS Script Tag" \in Range(Result.threats)

\* C8: a text that no pattern matches and that contains none of < > " ' comes
\* back unchanged with no threats.
C8_CleanInputUnchanged ==
    (/\ Analysed
     /\ \A p \in 1..NumPatterns : ~Matches(p, input)
     /\ \A i \in 1..Len(input) : input[i] \notin {"<", ">", "\"", "'"})
    => Result = [sanitized |-> input, threats |-> <<>>]

C8_Witness == Analysed /\ input = PlainText /\ Result.sanitized = PlainText

\* C9: threats lists, in declaration order and once each, exactly the names
\* of the patterns that match the input.
C9_ThreatsAreMatchingPatterns ==
    Analysed =>
        LET hit == SelectSeq(<<1, 2, 3, 4, 5, 6, 7, 8>>, LAMBDA p : Matches(p, input))
        IN Result.threats = [i \in 1..Len(hit) |-> PatternName(hit[i])]

C9_Witness ==
    /\ Analysed
    /\ input = PathExample
    /\ Result.threats = <<"Path Traversal">>

\* C10: the k-th iteration replaces the matches of the k-th declared pattern in
\* the working copy left by the iterations before it, and a pattern that
\* matches the input but replaces nothing does so only because an earlier
\* replacement changed the text.
C10_SequentialReplacement ==
    Analysed =>
        \A k \in 1..NumPatterns :
            LET before == WorkAfter[input][k - 1]
                after == WorkAfter[input][k]
            IN /\ after = ReplaceFrom(k, before, 1)
               /\ (PatternName(k) \in Range(Result.threats) /\ after = before)
                     => before # input

\* the later pattern Image XSS matches the input and replaces nothing
C10_Witness ==
    /\ Analysed
    /\ input = ImgExample
    /\ "Image XSS" \in Range(Result.threats)
    /\ WorkAfter[input][NumPatterns] = WorkAfter[input][NumPatterns - 1]
    /\ WorkAfter[input][NumPatterns - 1] # input

\* C20: every call of sanitizeInput returns what a call on patterns at rest
\* (every lastIndex 0) returns for the same input, and leaves every lastIndex
\* at 0.
C20_Deterministic ==
    /\ lastIndex = ZeroIndex
    /\ Analysed =>
          LET fresh == sanitizeInput(input, ZeroIndex)
          IN Result = [sanitized |-> fresh.sanitized, threats |-> fresh.threats]

\* a text with threats was analysed at least twice in a row
C20_Witness ==
    /\ Analysed
    /\ Result.threats # <<>>
    /\ lastIndex = ZeroIndex
    /\ Len(sanLogs) >= 6
    /\ sanLogs[Len(sanLogs) - 1] = LogLine("error", "THREATS DETECTED")
    /\ sanLogs[Len(sanLogs) - 4] = LogLine("error", "THREATS DETECTED")

DropExample == <<"'", ";", " ", "D", "R", "O", "P", " ", "T", "A", "B", "L", "E", " ", "u", "s", "e", "r", "s", ";", " ", "-", "-">>

LastSanLog == sanLogs[Len(sanLogs)]

\* C21: threats is empty iff the working copy before HTML-escaping equals the
\* input, i.e. no iteration substituted [BLOCKED]; and the log reports
\* "No threats detected" exactly for such results.
C21_ThreatsIffModified ==
    Analysed =>
        LET work == WorkAfter[input][NumPatterns]
        IN /\ Result.sanitized = EscapeHtml(work)
           /\ (Result.threats = <<>>) <=> (work = input)
           /\ (work = input) <=>
                 \A k \in 1..NumPatterns : WorkAfter[input][k] = WorkAfter[input][k - 1]
           /\ (LastSanLog = LogLine("success", "No threats detected - Input is safe"))
                 <=> (work = input)

\* an example reported as safe: no substitution, only HTML-escaping changed
\* it; an earlier analysis in the log had found threats
C21_Witness ==
    /\ Analysed
    /\ input = DropExample
    /\ Result.threats = <<>>
    /\ Result.sanitized # input
    /\ LastSanLog = LogLine("success", "No threats detected - Input is safe")
    /\ \E i \in 1..Len(sanLogs) : sanLogs[i] = LogLine("error", "THREATS DETECTED")

(***************************************************************************)
(* Properties of the CSRF simulator                                        *)
(***************************************************************************)
\* C14 (as stated): rotateToken clears validationResult, and a validateRequest
\* that resumes publishes a result only when the tokens it compares are the
\* current ones: none was rotated, and attack mode was not toggled, while it
\* waited.
C14_NoStaleResult ==
    [][ /\ rotateToken => validationResult' = Null
        /\ validateRequestResumes =>
              /\ Head(pending).server = serverToken
              /\ Head(pending).client = clientToken ]_vars

\* C16: the validation that resumes publishes "success" iff the client token
\* equalled the server token in the render of its submit; a submit made in
\* attack mode gets "error" and one made with attack mode off gets "success".
C16_Outcome ==
    [][ validateRequestResumes =>
          LET p == Head(pending)
          IN /\ validationResult' = Some(IF p.client = p.server THEN "success" ELSE "error")
             /\ p.attack => validationResult' = Some("error")
             /\ ~p.attack => validationResult' = Some("success") ]_vars

\* the submit that followed a rotation was approved
C16_Witness ==
    /\ validationResult = Some("success")
    /\ Len(csrfLogs) >= 6
    /\ csrfLogs[Len(csrfLogs) - 5] = LogLine("warning", "Token rotated for security")
    /\ csrfLogs[Len(csrfLogs) - 3] = LogLine("input", "Submitting form with CSRF token...")
    /\ csrfLogs[Len(csrfLogs)] = LogLine("success", "Request APPROVED - Action executed")

\* C17: clientToken = serverToken iff attack mode is off; in attack mode the
\* client token is the fake token, which no generated token equals.
C17_TokenSync ==
    /\ (clientToken = serverToken) <=> ~attackMode
    /\ attackMode => clientToken = FAKE_TOKEN
    /\ \A r \in RandomParts : generateToken(r) # FAKE_TOKEN

\* a rotation with attack mode off, after an attack was stopped
C17_Witness ==
    /\ ~attackMode
    /\ clientToken = serverToken
    /\ csrfLogs[Len(csrfLogs) - 1] = LogLine("warning", "Token rotated for security")
    /\ \E i \in 1..Len(csrfLogs) :
          csrfLogs[i] = LogLine("error", "Request REJECTED - Possible CSRF attack")

\* C18: isValidating holds exactly while a validation waits, at most one
\* waits at any time, and every validation that waits is followed by a state
\* with isValidating false and a result of success or error.
C18_SingleFlight ==
    /\ [](isValidating <=> pending # <<>>)
    /\ [](Len(pending) <= 1)
    /\ (pending # <<>>) ~>
          (~isValidating /\ validationResult \in {Some("success"), Some("error")})

C18_Witness ==
    /\ ~isValidating
    /\ pending = <<>>
    /\ validationResult = Some("error")
    /\ attackMode

(***************************************************************************)
(* Properties of the access-code gate                                      *)
(***************************************************************************)
\* C19: the simulator page is shown only with the session flag set; the flag
\* and the authenticated state are set only by the step in which
\* validateAccessCode returned true for the submitted code, which is then the
\* access code; a submit whose code is wrong or whose validation throws
\* leaves the flag unset and the login screen showing.
C19_LoginGate ==
    /\ [](~ShowsLoginScreen => authFlag)
    /\ [][ /\ ((authFlag' /\ ~authFlag) \/ (authenticated' /\ ~authenticated)) =>
               (/\ handleSubmitResumes
                /\ validateAccessCode(Head(loginPending))
                /\ Head(loginPending) = ACCESS_CODE)
           /\ (/\ handleSubmitResumes
               /\ (\/ ~validateAccessCode(Head(loginPending))
                   \/ error' = Some(ValidationFailed)))
                 => (~authFlag' /\ ShowsLoginScreen') ]_vars

\* the validation of the access code threw: the login screen stays
C19_Witness ==
    /\ ShowsLoginScreen
    /\ ~authFlag
    /\ code = ACCESS_CODE
    /\ error = Some(ValidationFailed)
    /\ ~isLoading

====
